---- MODULE Spec2Model ----
(***************************************************************************)
(* Process execution helpers of finit (helpers.c): run() with its command  *)
(* line tokenizer, fork/exec/wait and result mapping, run_parts(),         *)
(* run_getty(), procname_kill(), pidfile_poll() with pidfile_read(), and   *)
(* run_interactive().  Each helper has its own specification (Spec,        *)
(* SpecParts, SpecGetty, SpecKill, SpecPoll, SpecInteractive) over the     *)
(* variables below; run_getty() and run_interactive() call run() and take  *)
(* its steps.                                                              *)
(*                                                                         *)
(* Memory is modelled explicitly: the strdup'ed copy of the command line   *)
(* is a sequence of characters ending in NUL, a char* is an index into it, *)
(* 0 is the null pointer and Len+1 (one past the NUL) is an out-of-range   *)
(* pointer.  Undefined behaviour (dereferencing a null or out-of-range     *)
(* pointer) is a nondeterministic choice between a crash and going on with *)
(* whatever the read produced.                                             *)
(***************************************************************************)
EXTENDS Integers, Sequences, FiniteSets, TLC

VARIABLES
    \* ---- run() ----
    cmd,        \* the command line passed to run()
    buf,        \* the modifiable copy (strdup), NUL terminated
    arg,        \* char *arg : tokenizer cursor
    i,          \* int i     : next free slot of args[]
    args,       \* char *args[NUM_ARGS + 1]
    pc,         \* position of the caller inside run()
    ub,         \* undefined behaviour met so far ("none" if none)
    fp,         \* FILE *fp = fopen("/dev/null") succeeded
    sigdisp,    \* signal dispositions of the calling process
    child,      \* the forked child: none, forked, execed, zombie, reaped
    childSig,   \* the child's signal dispositions
    childOut,   \* what the child's stdio refers to
    childArgv,  \* argv the child passed to execvp
    execFailed, \* the child's execvp failed
    status,     \* wait status of the child
    reapedBy,   \* who reaped the child: none, run, other
    waitErr,    \* errno of a failed waitpid: none, EINTR, ECHILD
    result,     \* return value of run()
    \* ---- run_parts() ----
    dir,        \* the directory's entries, in readdir() order
    extra,      \* the caller's extra arguments (the va_list before its NULL)
    cwd,        \* current working directory of the process
    oldpwd,     \* char *oldpwd
    ent,        \* char *ent[NUM_SCRIPTS], the first num slots
    rpArgs,     \* char *args[NUM_ARGS] of run_parts
    rpI,        \* int i, the loop index (0-based)
    rpPc,       \* position of the caller inside run_parts()
    rpChild,    \* state of the child forked for ent[k], k in 1..num
    rpLaunch,   \* the fork() calls made so far: script name and outcome
    rpExec,     \* the last execv() call made by a child: path and argv
    rpExecSig,  \* dispositions of the last child that called execv()
    rpNonzero,  \* a reaped script had a nonzero wait status
    rpBudget,   \* how many more fork() calls the system will refuse
    rpResult,   \* return value of run_parts()
    \* ---- run_getty() ----
    gPc,        \* position of the console process inside run_getty()
    shutdown,   \* the file SYNC_SHUTDOWN exists
    stopped,    \* the file SYNC_STOPPED exists
    gIt,        \* what the current pass of the loop has seen and done
    gExit,      \* exit status of the console process
    \* ---- procname_kill() ----
    pkName,     \* const char *name, the target
    pkDir,      \* the entries of /proc, in readdir() order
    pkProc,     \* the processes behind the numeric entries
    pkPos,      \* how many entries readdir() has returned
    pkLine,     \* char line[64], the first line of the status file
    pkPc,       \* position of the caller inside procname_kill()
    pkResult,   \* int result
    \* ---- pidfile_poll() ----
    pfFile,     \* the pidfile: whether it exists, and its text
    pfTries,    \* int tries
    pfPc,       \* position of the caller inside pidfile_poll()
    pfResult,   \* pid_t pid, the value returned
    \* ---- run_interactive() ----
    debug,      \* the global debug flag
    riFp,       \* FILE *fp = tmpfile() succeeded
    riOut,      \* what stdout and stderr of the caller refer to
    riPc,       \* position of the caller inside run_interactive()
    scratch,    \* what has been written to the scratch file
    errStream,  \* what has been written to the real error stream
    childWrote  \* the executed command has printed its output

runVars == <<cmd, buf, arg, i, args, pc, ub, fp, child, childSig,
             childOut, childArgv, execFailed, status, reapedBy, waitErr, result>>
partsVars == <<dir, extra, cwd, oldpwd, ent, rpArgs, rpI, rpPc, rpChild,
               rpLaunch, rpExec, rpExecSig, rpNonzero, rpBudget, rpResult>>
gettyVars == <<gPc, shutdown, stopped, gIt, gExit>>
killVars == <<pkName, pkDir, pkProc, pkPos, pkLine, pkPc, pkResult>>
pollVars == <<pfFile, pfTries, pfPc, pfResult>>
riVars == <<debug, riFp, riOut, riPc, scratch, errStream, childWrote>>
helperVars == <<gettyVars, killVars, pollVars, riVars>>
vars == <<runVars, sigdisp, partsVars, helperVars>>

-----------------------------------------------------------------------------
(* Program constants *)

NUM_ARGS == 16
NSIG == 65

(* Bounds of the model *)

MaxLen == 3        \* every command line of at most MaxLen characters is tried
MaxTokens == 18    \* longest structured command line, in tokens

-----------------------------------------------------------------------------
(* Characters and strings *)

NUL == ""
SP == " "
TAB == "\t"
DQ == "\""
SQ == "'"
NULL == 0
UNINIT == -1        \* an args[] slot never written
JUNK == <<"?">>     \* what a string read outside the buffer yields

Alphabet == {"a", SP, TAB, DQ, SQ}
Letters == <<"a","b","c","d","e","f","g","h","i","j","k","l","m",
             "n","o","p","q","r","s","t","u","v","w","x","y","z">>

ShortCmds == UNION {[1..n -> Alphabet] : n \in 0..MaxLen}

TokenOf(k) == <<Letters[((k - 1) % 26) + 1]>>
SepOf(style, k) ==
    IF style = "sp" THEN SP
    ELSE IF style = "tab" THEN TAB
    ELSE IF k % 2 = 0 THEN SP ELSE TAB

RECURSIVE LongCmd(_, _)
LongCmd(n, style) ==
    IF n = 1 THEN TokenOf(1)
    ELSE LongCmd(n - 1, style) \o <<SepOf(style, n)>> \o TokenOf(n)

LongCmds == {LongCmd(n, style) : n \in 1..MaxTokens, style \in {"sp", "tab", "alt"}}

\* su -c "dbus-daemon --system" messagebus
SuCmd ==
    <<"s","u"," ","-","c"," ","\"","d","b","u","s","-","d","a","e","m","o","n",
      " ","-","-","s","y","s","t","e","m","\""," ","m","e","s","s","a","g","e",
      "b","u","s">>
BinTrue == <<"/","b","i","n","/","t","r","u","e">>

ExampleCmds == {
    <<"e","c","h","o"," ","h","e","l","l","o">>,
    BinTrue,
    <<"/","b","i","n","/","f","a","l","s","e">>,
    SuCmd,
    <<"a"," ","'","b"," ","\"","c","'"," ","d">>,
    <<"a"," ","\"","b","\"","c"," ","d">>,
    <<"a"," ","\"","b"," ","c","\"">>,
    <<"a"," ","\"","b"," ","c">>,
    <<"\"","a"," ","b","\""," ","c">> }

Cmds == ShortCmds \cup LongCmds \cup ExampleCmds

-----------------------------------------------------------------------------
(* C strings in the buffer *)

InBuf(b, p) == p \in 1..Len(b)

\* The NUL-terminated string starting at p.
RECURSIVE CStr(_, _)
CStr(b, p) ==
    IF ~InBuf(b, p) THEN JUNK
    ELSE IF b[p] = NUL THEN <<>>
    ELSE <<b[p]>> \o CStr(b, p + 1)

\* First index at or after p holding NUL or a character of delims.
Scan(b, p, delims) ==
    CHOOSE j \in p..Len(b) :
        /\ b[j] \in delims \cup {NUL}
        /\ \A k \in p..(j - 1) : b[k] \notin delims \cup {NUL}

\* strsep(&arg, delims) on an in-range or null arg: the token, the new arg
\* and the buffer with the delimiter overwritten by NUL.
Strsep(b, p, delims) ==
    IF p = NULL THEN [tok |-> NULL, arg |-> NULL, buf |-> b]
    ELSE LET j == Scan(b, p, delims) IN
         IF b[j] = NUL
         THEN [tok |-> p, arg |-> NULL, buf |-> b]
         ELSE [tok |-> p, arg |-> j + 1, buf |-> [b EXCEPT ![j] = NUL]]

-----------------------------------------------------------------------------
(* run(): the tokenizer, lines 398-432 *)

Quotes == {SQ, DQ}
Blanks == {SP, TAB}

\* QuotedToken without "*p = *delim": the closing quote stays cleared.
QuotedToken_NoRestore(b, a) ==
    LET delim == b[a]
        r == Strsep(b, a + 1, {delim})
    IN  IF r.arg = NULL
        THEN [tok |-> a, arg |-> NULL, buf |-> r.buf, ub |-> "null_write"]
        ELSE [tok |-> a,
              arg |-> r.arg + 1,
              buf |-> [r.buf EXCEPT ![r.arg] = NUL],
              ub  |-> "none"]

\* The quoted branch of the loop body: args[i++] = arg++, strsep to the
\* matching quote, the closing quote put back, the byte after it cleared.
QuotedToken(b, a) ==
    LET delim == b[a]
        r == Strsep(b, a + 1, {delim})
    IN  IF r.arg = NULL
        THEN [tok |-> a, arg |-> NULL, buf |-> r.buf, ub |-> "null_write"]
        ELSE [tok |-> a,
              arg |-> r.arg + 1,
              buf |-> [[r.buf EXCEPT ![r.arg - 1] = delim] EXCEPT ![r.arg] = NUL],
              ub  |-> "none"]

\* The plain branch: args[i++] = strsep(&arg, "\t ").
PlainToken(b, a) ==
    LET r == Strsep(b, a, Blanks)
    IN  [tok |-> r.tok, arg |-> r.arg, buf |-> r.buf, ub |-> "none"]

\* while (arg && i < NUM_ARGS)
LoopAgain(a, n) == a /= NULL /\ n < NUM_ARGS

\* if (i == NUM_ARGS && args[i]), evaluated after args[i] = NULL.
TooLong(n, as) == n = NUM_ARGS /\ as[n] /= NULL

\* The argv execvp() walks: the strings of args[0..] up to the first NULL.
RECURSIVE ArgvFrom(_, _, _)
ArgvFrom(b, as, k) ==
    IF k > NUM_ARGS \/ as[k] = NULL THEN <<>>
    ELSE IF as[k] = UNINIT THEN <<JUNK>>
    ELSE <<CStr(b, as[k])>> \o ArgvFrom(b, as, k + 1)

Argv(b, as) == ArgvFrom(b, as, 0)

-----------------------------------------------------------------------------
(* run(): signals, wait status and result, lines 434-488 *)

Signals == 1..(NSIG - 1)
SIGCHLD == 17
Fixed == {9, 19}      \* SIGKILL and SIGSTOP: dispositions that cannot be changed

AllDfl == [s \in Signals |-> "dfl"]
ChldIgn == [AllDfl EXCEPT ![SIGCHLD] = "ign"]
AllHandled == [s \in Signals |-> IF s \in Fixed THEN "dfl" ELSE "handler"]
SigPatterns == {AllDfl, ChldIgn, AllHandled}

\* DFLSIG(sa, sig, 0): sigaction(sig, SIG_DFL).
DFLSIG(disp, sig) == [disp EXCEPT ![sig] = "dfl"]

\* for (i = 1; i < NSIG; i++) DFLSIG(sa, i, 0);
RECURSIVE ResetFrom(_, _)
ResetFrom(disp, sig) ==
    IF sig >= NSIG THEN disp ELSE ResetFrom(DFLSIG(disp, sig), sig + 1)

ResetSignals(disp) == ResetFrom(disp, 1)

\* Wait status words as the kernel builds them and <sys/wait.h> reads them.
ExitStatus(code) == (code % 256) * 256
SignalStatus(sig, core) == sig + (IF core THEN 128 ELSE 0)
WEXITSTATUS(st) == (st \div 256) % 256
WTERMSIG(st) == st % 128
WIFEXITED(st) == WTERMSIG(st) = 0
WIFSIGNALED(st) == WTERMSIG(st) \in 1..126

ExitCodes == {0, 1, 2, 255}
KillSignals == {<<2, FALSE>>, <<9, FALSE>>, <<15, FALSE>>, <<6, TRUE>>, <<11, TRUE>>}

\* _exit(1) after a failed execvp.
ExecFailCode == 1
\* The child of run_parts() ends with exit(0) after a failed execv.
ExecFailStatus_Zero == ExitStatus(0)
ExecFailStatus == ExitStatus(ExecFailCode)

\* RunResult without "if (!result) result = 1".
RunResult_NoSignalFix(st) == WEXITSTATUS(st)

\* Lines 474-488: the value run() returns for a reaped child.
RunResult(st) ==
    LET r == WEXITSTATUS(st)
    IN  IF WIFEXITED(st) THEN r
        ELSE IF WIFSIGNALED(st) /\ r = 0 THEN 1
        ELSE r

-----------------------------------------------------------------------------
(* run(): actions *)

NoPwd == "null"     \* oldpwd == NULL: getcwd() failed, or not yet called

NoArgs == [k \in 0..NUM_ARGS |-> UNINIT]

\* run_getty() not called.
GettyIdle ==
    /\ gPc = "idle"
    /\ shutdown = FALSE
    /\ stopped = FALSE
    /\ gIt = [top |-> "none", prompt |-> "none", read |-> "none",
              recheck |-> "none", login |-> "none"]
    /\ gExit = 0

\* procname_kill() not called.
KillIdle ==
    /\ pkName = <<>>
    /\ pkDir = <<>>
    /\ pkProc = <<>>
    /\ pkPos = 0
    /\ pkLine = <<>>
    /\ pkPc = "idle"
    /\ pkResult = 0

\* pidfile_poll() not called.
PollIdle ==
    /\ pfFile = [exists |-> FALSE, text |-> <<>>]
    /\ pfTries = 0
    /\ pfPc = "idle"
    /\ pfResult = 0

\* run_interactive() not called.
InteractiveIdle ==
    /\ debug = FALSE
    /\ riFp = FALSE
    /\ riOut = "tty"
    /\ riPc = "idle"
    /\ scratch = <<>>
    /\ errStream = <<>>
    /\ childWrote = FALSE

HelpersIdle == GettyIdle /\ KillIdle /\ PollIdle /\ InteractiveIdle

\* run_parts() not called.
PartsIdle ==
    /\ dir = <<>>
    /\ extra = <<>>
    /\ cwd = "orig"
    /\ oldpwd = NoPwd
    /\ ent = <<>>
    /\ rpArgs = <<>>
    /\ rpI = 0
    /\ rpPc = "idle"
    /\ rpChild = <<>>
    /\ rpLaunch = <<>>
    /\ rpExec = <<>>
    /\ rpExecSig = <<>>
    /\ rpNonzero = FALSE
    /\ rpBudget = 0
    /\ rpResult = 0

Init ==
    /\ cmd \in Cmds
    /\ sigdisp \in SigPatterns
    /\ PartsIdle
    /\ HelpersIdle
    /\ buf = <<>>
    /\ arg = NULL
    /\ i = 0
    /\ args = NoArgs
    /\ pc = "call"
    /\ ub = "none"
    /\ fp = FALSE
    /\ child = "none"
    /\ childSig = AllDfl
    /\ childOut = "none"
    /\ childArgv = <<>>
    /\ execFailed = FALSE
    /\ status = 0
    /\ reapedBy = "none"
    /\ waitErr = "none"
    /\ result = 0

tokVars == <<buf, arg, i, args, ub>>
childVars == <<child, childSig, childOut, childArgv, execFailed, status, reapedBy>>

\* strdup() fails: return 1.
RunStrdupFail ==
    /\ pc = "call"
    /\ pc' = "done"
    /\ result' = 1
    /\ UNCHANGED <<partsVars, helperVars, cmd, sigdisp, fp, waitErr>>
    /\ UNCHANGED tokVars
    /\ UNCHANGED childVars

\* backup = arg = strdup(cmd); args[i++] = strsep(&arg, "\t ");
RunFirstToken ==
    /\ pc = "call"
    /\ LET r == Strsep(cmd \o <<NUL>>, 1, Blanks)
       IN  /\ buf' = r.buf
           /\ arg' = r.arg
           /\ args' = [args EXCEPT ![0] = r.tok]
    /\ i' = 1
    /\ pc' = "tok"
    /\ UNCHANGED <<partsVars, helperVars, cmd, sigdisp, fp, waitErr, ub, result>>
    /\ UNCHANGED childVars

\* One pass of the do { } while body with arg pointing into the buffer.
TokStep ==
    /\ pc = "tok"
    /\ InBuf(buf, arg)
    /\ LET r == IF buf[arg] \in Quotes THEN QuotedToken(buf, arg)
                ELSE PlainToken(buf, arg)
       IN  /\ args' = [args EXCEPT ![i] = r.tok]
           /\ i' = i + 1
           /\ buf' = r.buf
           /\ ub' = IF r.ub = "none" THEN ub ELSE r.ub
           /\ IF r.ub = "none"
              THEN /\ arg' = r.arg
                   /\ pc' = IF LoopAgain(r.arg, i + 1) THEN "tok" ELSE "tokdone"
              ELSE \* p = arg - 1 with arg == NULL, then *p = ..., *arg++ = 0:
                   \* stores through invalid pointers.  The process dies, or
                   \* the stores are lost and arg is left out of range.
                   \/ /\ pc' = "crashed"
                      /\ arg' = NULL
                   \/ /\ arg' = Len(buf) + 1
                      /\ pc' = IF LoopAgain(Len(buf) + 1, i + 1) THEN "tok" ELSE "tokdone"
    /\ UNCHANGED <<partsVars, helperVars, cmd, sigdisp, fp, waitErr, result>>
    /\ UNCHANGED childVars

\* The loop body entered with arg == NULL (the do-while tests arg only after
\* the body): *arg reads through a null pointer.  The process dies, or the
\* read yields a byte that is no quote and strsep(&arg) returns NULL.
TokNullDeref ==
    /\ pc = "tok"
    /\ arg = NULL
    /\ ub' = "null_deref"
    /\ \/ /\ pc' = "crashed"
          /\ UNCHANGED <<args, i>>
       \/ /\ args' = [args EXCEPT ![i] = Strsep(buf, arg, Blanks).tok]
          /\ i' = i + 1
          /\ pc' = "tokdone"
    /\ UNCHANGED <<partsVars, helperVars, cmd, sigdisp, fp, waitErr, buf, arg, result>>
    /\ UNCHANGED childVars

\* The loop body entered with arg one past the terminating NUL: *arg reads
\* outside the copy.  The process dies, or the token is whatever follows the
\* allocation and the scan ends there.
TokOutOfRange ==
    /\ pc = "tok"
    /\ arg /= NULL
    /\ ~InBuf(buf, arg)
    /\ ub' = "oob_read"
    /\ \/ /\ pc' = "crashed"
          /\ UNCHANGED <<args, i, arg>>
       \/ /\ args' = [args EXCEPT ![i] = arg]
          /\ i' = i + 1
          /\ arg' = NULL
          /\ pc' = "tokdone"
    /\ UNCHANGED <<partsVars, helperVars, cmd, sigdisp, fp, waitErr, buf, result>>
    /\ UNCHANGED childVars

\* args[i] = NULL; the overflow test; fp = fopen("/dev/null", "w").
TokDone ==
    /\ pc = "tokdone"
    /\ args' = [args EXCEPT ![i] = NULL]
    /\ IF TooLong(i, args')
       THEN /\ pc' = "done"
            /\ result' = 1
            /\ fp' = fp
       ELSE /\ pc' = "fork"
            /\ result' = result
            /\ fp' \in BOOLEAN
    /\ UNCHANGED <<partsVars, helperVars, cmd, sigdisp, waitErr, buf, arg, i, ub>>
    /\ UNCHANGED childVars

\* pid = fork() succeeds: the child starts with the caller's dispositions,
\* memory and stdio.
Fork ==
    /\ pc = "fork"
    /\ child' = "forked"
    /\ childSig' = sigdisp
    /\ childOut' = "inherited"
    /\ pc' = "wait"
    /\ UNCHANGED <<partsVars, helperVars, cmd, sigdisp, fp, waitErr, result, childArgv, execFailed, status, reapedBy>>
    /\ UNCHANGED tokVars

\* pid == -1: return -1.
ForkFail ==
    /\ pc = "fork"
    /\ pc' = "done"
    /\ result' = -1
    /\ UNCHANGED <<partsVars, helperVars, cmd, sigdisp, fp, waitErr>>
    /\ UNCHANGED tokVars
    /\ UNCHANGED childVars

\* The child: reset the dispositions, redirect stdio if fp, execvp().
\* ok says whether execvp() succeeded; if not the child calls _exit(1).
ChildExec ==
    /\ child = "forked"
    /\ childSig' = ResetSignals(childSig)
    /\ childOut' = IF fp THEN "devnull" ELSE childOut
    /\ childArgv' = Argv(buf, args)
    /\ \E ok \in BOOLEAN :
          IF ok
          THEN /\ child' = "execed"
               /\ UNCHANGED <<execFailed, status>>
          ELSE /\ child' = "zombie"
               /\ execFailed' = TRUE
               /\ status' = ExecFailStatus
    /\ UNCHANGED <<partsVars, helperVars, cmd, sigdisp, fp, waitErr, result, pc, reapedBy>>
    /\ UNCHANGED tokVars

\* The executed command exits.
ChildExit ==
    /\ child = "execed"
    /\ \E code \in ExitCodes : status' = ExitStatus(code)
    /\ child' = "zombie"
    /\ UNCHANGED <<partsVars, helperVars, cmd, sigdisp, fp, waitErr, result, pc, childSig, childOut,
                   childArgv, execFailed, reapedBy>>
    /\ UNCHANGED tokVars

\* The child is terminated by a signal, before or after the exec.
ChildKilled ==
    /\ child \in {"forked", "execed"}
    /\ \E k \in KillSignals : status' = SignalStatus(k[1], k[2])
    /\ child' = "zombie"
    /\ UNCHANGED <<partsVars, helperVars, cmd, sigdisp, fp, waitErr, result, pc, childSig, childOut,
                   childArgv, execFailed, reapedBy>>
    /\ UNCHANGED tokVars

\* The zombie is reaped outside run(): SIGCHLD ignored, or a SIGCHLD handler
\* of the caller collecting children.
ReapedElsewhere ==
    /\ pc = "wait"
    /\ child = "zombie"
    /\ sigdisp[SIGCHLD] /= "dfl"
    /\ child' = "reaped"
    /\ reapedBy' = "other"
    /\ UNCHANGED <<partsVars, helperVars, cmd, sigdisp, fp, waitErr, result, pc, childSig, childOut,
                   childArgv, execFailed, status>>
    /\ UNCHANGED tokVars

\* WaitpidOk with WNOHANG: waitpid() returns whether or not the child ended.
WaitpidOk_NoHang ==
    /\ pc = "wait"
    /\ child \in {"forked", "execed", "zombie"}
    /\ child' = IF child = "zombie" THEN "reaped" ELSE child
    /\ reapedBy' = IF child = "zombie" THEN "run" ELSE reapedBy
    /\ pc' = "decode"
    /\ UNCHANGED <<partsVars, helperVars, cmd, sigdisp, fp, waitErr, result, childSig, childOut,
                   childArgv, execFailed, status>>
    /\ UNCHANGED tokVars

\* waitpid(pid, &status, 0) returns the child.
WaitpidOk ==
    /\ pc = "wait"
    /\ child = "zombie"
    /\ child' = "reaped"
    /\ reapedBy' = "run"
    /\ pc' = "decode"
    /\ UNCHANGED <<partsVars, helperVars, cmd, sigdisp, fp, waitErr, result, childSig, childOut,
                   childArgv, execFailed, status>>
    /\ UNCHANGED tokVars

\* waitpid() == -1 with EINTR: a handled signal arrived while blocked.
WaitpidEINTR ==
    /\ pc = "wait"
    /\ child \in {"forked", "execed"}
    /\ \E s \in Signals : sigdisp[s] = "handler"
    /\ waitErr' = "EINTR"
    /\ result' = 1
    /\ pc' = "done"
    /\ UNCHANGED <<partsVars, helperVars, cmd, sigdisp, fp>>
    /\ UNCHANGED tokVars
    /\ UNCHANGED childVars

\* waitpid() == -1 with ECHILD: the child is no longer there to wait for.
WaitpidECHILD ==
    /\ pc = "wait"
    /\ child = "reaped"
    /\ waitErr' = "ECHILD"
    /\ result' = 1
    /\ pc' = "done"
    /\ UNCHANGED <<partsVars, helperVars, cmd, sigdisp, fp>>
    /\ UNCHANGED tokVars
    /\ UNCHANGED childVars

\* result = WEXITSTATUS(status) ... return result.
RunReturn ==
    /\ pc = "decode"
    /\ result' = RunResult(status)
    /\ pc' = "done"
    /\ UNCHANGED <<partsVars, helperVars, cmd, sigdisp, fp, waitErr>>
    /\ UNCHANGED tokVars
    /\ UNCHANGED childVars

Next ==
    \/ RunStrdupFail
    \/ RunFirstToken
    \/ TokStep
    \/ TokNullDeref
    \/ TokOutOfRange
    \/ TokDone
    \/ Fork
    \/ ForkFail
    \/ ChildExec
    \/ ChildExit
    \/ ChildKilled
    \/ ReapedElsewhere
    \/ WaitpidOk
    \/ WaitpidEINTR
    \/ WaitpidECHILD
    \/ RunReturn

Spec == Init /\ [][Next]_vars

-----------------------------------------------------------------------------
(* run_parts(): directory entries, cmp() and the scan, lines 590-638 *)

NUM_SCRIPTS == 128
MaxEntries == 2     \* every listing of at most MaxEntries entries is tried
MaxForkFail == 1    \* fork() failures injected into one call on a short listing

\* File names are strings of byte values, as strcmp() compares them.
S01 == <<83, 48, 49>>
S01a == <<83, 48, 49, 97>>
S02b == <<83, 48, 50, 98>>
README == <<82, 69, 65, 68, 77, 69>>
Names == {S01, S01a, S02b}

\* What readdir() and stat() report of an entry.
Script == [d_type |-> "DT_REG", xusr |-> TRUE, statok |-> TRUE]
Plain == [d_type |-> "DT_REG", xusr |-> FALSE, statok |-> TRUE]
Subdir == [d_type |-> "DT_DIR", xusr |-> TRUE, statok |-> TRUE]
Gone == [d_type |-> "DT_REG", xusr |-> TRUE, statok |-> FALSE]
Kinds == {Script, Plain, Subdir, Gone}

Entry(name, kind) ==
    [name |-> name, d_type |-> kind.d_type, xusr |-> kind.xusr, statok |-> kind.statok]

Injective(f) == \A j, k \in DOMAIN f : j /= k => f[j] /= f[k]

SmallDirs ==
    UNION {{[k \in 1..n |-> Entry(ns[k], ks[k])] :
                ns \in {f \in [1..n -> Names] : Injective(f)}, ks \in [1..n -> Kinds]} :
           n \in 0..MaxEntries}

SpecDir == <<Entry(S02b, Script), Entry(S01a, Script), Entry(README, Plain)>>
ExampleDirs == {
    SpecDir,
    <<Entry(S02b, Script), Entry(S01a, Script), Entry(S01, Script)>> }

\* n scripts, listed in descending name order.
BigDir(n) == [k \in 1..n |-> Entry(<<83, n + 1 - k>>, Script)]
BigDirs == {BigDir(n) : n \in {NUM_SCRIPTS, NUM_SCRIPTS + 1}}

\* In run_parts() a char* is the string it points to; no C string holds the
\* byte 0, so <<0>> stands for the null pointer and <<-1>> for a slot never
\* written.
NullStr == <<0>>
UninitStr == <<-1>>
START == <<115, 116, 97, 114, 116>>
Extras == {<<>>, <<START>>}

\* strcmp(): negative, zero or positive.
RECURSIVE Strcmp(_, _)
Strcmp(a, b) ==
    IF a = <<>> /\ b = <<>> THEN 0
    ELSE IF a = <<>> THEN -1
    ELSE IF b = <<>> THEN 1
    ELSE IF Head(a) /= Head(b) THEN Head(a) - Head(b)
    ELSE Strcmp(Tail(a), Tail(b))

\* cmp() with its arguments swapped.
Cmp_Reversed(s1, s2) == Strcmp(s2, s1)

\* static int cmp(): strcmp(*(char **)s1, *(char **)s2)
Cmp(s1, s2) == Strcmp(s1, s2)

\* qsort(ent, num, sizeof(char *), cmp): the names are distinct, so the
\* result is the one ordering cmp() allows, each name at the place given by
\* the number of names cmp() puts before it.
Qsort(seq) ==
    LET n == Len(seq)
        before == [j \in 1..n |-> Cardinality({m \in 1..n : Cmp(seq[m], seq[j]) < 0})]
    IN  [k \in 1..n |-> seq[CHOOSE j \in 1..n : before[j] = k - 1]]

\* if (e->d_type == DT_REG && stat(e->d_name, &st) == 0) if (st.st_mode & S_IXUSR)
Wanted(e) == e.d_type = "DT_REG" /\ e.statok /\ e.xusr

\* if (num >= NUM_SCRIPTS) break;
Full(num) == num >= NUM_SCRIPTS

\* while ((e = readdir(d))) { ... ent[num++] = strdup(e->d_name); ... }:
\* the wanted entries in readdir() order, up to the one that fills ent[].
Collect(d) ==
    LET w == SelectSeq(d, Wanted)
        num == IF Full(Len(w)) THEN NUM_SCRIPTS ELSE Len(w)
    IN  [k \in 1..num |-> w[k].name]

\* while (argnum < NUM_ARGS && (args[argnum++] = va_arg(ap, char *)));
\* The caller ends the list with NULL.
VaCollect(ex) ==
    [k \in 0..(NUM_ARGS - 1) |->
        IF k = 0 THEN UninitStr
        ELSE IF k <= Len(ex) THEN ex[k]
        ELSE IF k = Len(ex) + 1 THEN NullStr
        ELSE UninitStr]

\* args[0] = ent[i]; args[1] = NULL;
ScriptArgs(as, name) == [as EXCEPT ![0] = name, ![1] = NullStr]

\* The argv execv() walks, up to the first NULL.
RECURSIVE RpArgvFrom(_, _)
RpArgvFrom(as, k) ==
    IF k > NUM_ARGS - 1 \/ as[k] = NullStr THEN <<>>
    ELSE <<as[k]>> \o RpArgvFrom(as, k + 1)

RpArgv(as) == RpArgvFrom(as, 0)

-----------------------------------------------------------------------------
(* run_parts(): actions, lines 595-661 *)

\* run() not called.
RunIdle ==
    /\ cmd = <<>>
    /\ buf = <<>>
    /\ arg = NULL
    /\ i = 0
    /\ args = NoArgs
    /\ pc = "idle"
    /\ ub = "none"
    /\ fp = FALSE
    /\ child = "none"
    /\ childSig = AllDfl
    /\ childOut = "none"
    /\ childArgv = <<>>
    /\ execFailed = FALSE
    /\ status = 0
    /\ reapedBy = "none"
    /\ waitErr = "none"
    /\ result = 0

\* The long listings are run with default dispositions and no fork() failure.
PartsInputs ==
    {<<d, <<>>, s, MaxForkFail>> : d \in SmallDirs, s \in {AllDfl, ChldIgn, AllHandled}}
    \cup {<<d, x, s, MaxForkFail>> : d \in ExampleDirs, x \in Extras,
                                    s \in {AllDfl, ChldIgn, AllHandled}}
    \cup {<<d, <<>>, AllDfl, 0>> : d \in BigDirs}

InitParts ==
    /\ RunIdle
    /\ HelpersIdle
    /\ \E in \in PartsInputs :
          /\ dir = in[1]
          /\ extra = in[2]
          /\ sigdisp = in[3]
          /\ rpBudget = in[4]
    /\ cwd = "orig"
    /\ oldpwd = NoPwd
    /\ ent = <<>>
    /\ rpArgs = <<>>
    /\ rpI = 0
    /\ rpPc = "call"
    /\ rpChild = <<>>
    /\ rpLaunch = <<>>
    /\ rpExec = <<>>
    /\ rpExecSig = <<>>
    /\ rpNonzero = FALSE
    /\ rpResult = 0

rpInput == <<runVars, sigdisp, dir, extra, helperVars>>
rpChildVars == <<rpChild, rpLaunch, rpExec, rpExecSig, rpNonzero, rpBudget>>

Alive(st) == st \in {"forked", "execed"}
Zombie(st) == st \in {"zombie0", "zombie1"}

\* oldpwd = getcwd(NULL, 0); chdir(dir) fails: free(oldpwd); return -1.
RpChdirFail ==
    /\ rpPc = "call"
    /\ rpResult' = -1
    /\ rpPc' = "done"
    /\ UNCHANGED <<rpInput, cwd, oldpwd, ent, rpArgs, rpI, rpChildVars>>

\* oldpwd = getcwd(NULL, 0), which may fail; chdir(dir) succeeds.
RpChdir ==
    /\ rpPc = "call"
    /\ oldpwd' \in {cwd, NoPwd}
    /\ cwd' = "target"
    /\ rpPc' = "opendir"
    /\ UNCHANGED <<rpInput, ent, rpArgs, rpI, rpChildVars, rpResult>>

\* opendir(dir) == NULL: free(oldpwd); return -1.
RpOpendirFail ==
    /\ rpPc = "opendir"
    /\ rpResult' = -1
    /\ rpPc' = "done"
    /\ UNCHANGED <<rpInput, cwd, oldpwd, ent, rpArgs, rpI, rpChildVars>>

\* opendir(dir) succeeds: the va_list, the readdir() loop, closedir(), the
\* num == 0 return and qsort().
RpScan ==
    /\ rpPc = "opendir"
    /\ rpArgs' = VaCollect(extra)
    /\ LET found == Collect(dir)
       IN  IF Len(found) = 0
           THEN /\ ent' = found
                /\ rpResult' = 0
                /\ rpPc' = "done"
                /\ rpChild' = rpChild
           ELSE /\ ent' = Qsort(found)
                /\ rpResult' = rpResult
                /\ rpPc' = "loop"
                /\ rpChild' = [k \in 1..Len(found) |-> "none"]
    /\ rpI' = 0
    /\ UNCHANGED <<rpInput, cwd, oldpwd, rpLaunch, rpExec, rpExecSig, rpNonzero, rpBudget>>

\* args[0] = ent[i]; args[1] = NULL; pid = fork() succeeds.
RpFork ==
    /\ rpPc = "loop"
    /\ rpI < Len(ent)
    /\ rpArgs' = ScriptArgs(rpArgs, ent[rpI + 1])
    /\ rpChild' = [rpChild EXCEPT ![rpI + 1] = "forked"]
    /\ rpLaunch' = Append(rpLaunch, [name |-> ent[rpI + 1], forked |-> TRUE])
    /\ rpPc' = "wait"
    /\ UNCHANGED <<rpInput, cwd, oldpwd, ent, rpI, rpExec, rpExecSig, rpNonzero, rpBudget, rpResult>>

\* fork() == -1: no child, and the loop goes on to waitpid(-1, &status, 0).
RpForkFail ==
    /\ rpPc = "loop"
    /\ rpI < Len(ent)
    /\ rpBudget > 0
    /\ rpBudget' = rpBudget - 1
    /\ rpArgs' = ScriptArgs(rpArgs, ent[rpI + 1])
    /\ rpLaunch' = Append(rpLaunch, [name |-> ent[rpI + 1], forked |-> FALSE])
    /\ rpPc' = "waitany"
    /\ UNCHANGED <<rpInput, cwd, oldpwd, ent, rpI, rpChild, rpExec, rpExecSig, rpNonzero, rpResult>>

\* The child of ent[c]: execv(ent[c], args) with the dispositions it was
\* forked with; if execv() fails, exit(0).
RpChildExec(c) ==
    /\ rpChild[c] = "forked"
    /\ rpExec' = <<[path |-> ent[c], argv |-> RpArgv(ScriptArgs(rpArgs, ent[c]))]>>
    /\ rpExecSig' = sigdisp
    /\ \E ok \in BOOLEAN :
          rpChild' = [rpChild EXCEPT ![c] = IF ok THEN "execed" ELSE "zombie0"]
    /\ UNCHANGED <<rpInput, cwd, oldpwd, ent, rpArgs, rpI, rpPc, rpLaunch, rpNonzero, rpBudget, rpResult>>

\* The script exits, with status zero or not.
RpChildExit(c) ==
    /\ rpChild[c] = "execed"
    /\ \E z \in {"zombie0", "zombie1"} : rpChild' = [rpChild EXCEPT ![c] = z]
    /\ UNCHANGED <<rpInput, cwd, oldpwd, ent, rpArgs, rpI, rpPc, rpLaunch, rpExec,
                   rpExecSig, rpNonzero, rpBudget, rpResult>>

\* The child is terminated by a signal.
RpChildKilled(c) ==
    /\ Alive(rpChild[c])
    /\ rpChild' = [rpChild EXCEPT ![c] = "zombie1"]
    /\ UNCHANGED <<rpInput, cwd, oldpwd, ent, rpArgs, rpI, rpPc, rpLaunch, rpExec,
                   rpExecSig, rpNonzero, rpBudget, rpResult>>

\* A zombie is reaped outside the loop's waitpid(pid): SIGCHLD ignored or
\* handled by the caller.
RpReapedElsewhere(c) ==
    /\ Zombie(rpChild[c])
    /\ sigdisp[SIGCHLD] /= "dfl"
    /\ rpChild' = [rpChild EXCEPT ![c] = "reaped"]
    /\ UNCHANGED <<rpInput, cwd, oldpwd, ent, rpArgs, rpI, rpPc, rpLaunch, rpExec,
                   rpExecSig, rpNonzero, rpBudget, rpResult>>

\* waitpid(pid, &status, 0) returns the child; free(ent[i]); i++.
RpWaitpid ==
    /\ rpPc = "wait"
    /\ Zombie(rpChild[rpI + 1])
    /\ rpNonzero' = (rpNonzero \/ rpChild[rpI + 1] = "zombie1")
    /\ rpChild' = [rpChild EXCEPT ![rpI + 1] = "reaped"]
    /\ rpI' = rpI + 1
    /\ rpPc' = "loop"
    /\ UNCHANGED <<rpInput, cwd, oldpwd, ent, rpArgs, rpLaunch, rpExec, rpExecSig, rpBudget, rpResult>>

\* waitpid(pid) == -1 with EINTR; the return value is not looked at.
RpWaitEINTR ==
    /\ rpPc = "wait"
    /\ Alive(rpChild[rpI + 1])
    /\ \E s \in Signals : sigdisp[s] = "handler"
    /\ rpI' = rpI + 1
    /\ rpPc' = "loop"
    /\ UNCHANGED <<rpInput, cwd, oldpwd, ent, rpArgs, rpChildVars, rpResult>>

\* waitpid(pid) == -1 with ECHILD; the return value is not looked at.
RpWaitECHILD ==
    /\ rpPc = "wait"
    /\ rpChild[rpI + 1] = "reaped"
    /\ rpI' = rpI + 1
    /\ rpPc' = "loop"
    /\ UNCHANGED <<rpInput, cwd, oldpwd, ent, rpArgs, rpChildVars, rpResult>>

\* After a failed fork pid is -1: waitpid(-1) takes any zombie child of the
\* process (an earlier script's, or one outside run_parts), or fails.
RpWaitAny ==
    /\ rpPc = "waitany"
    /\ \/ \E c \in DOMAIN rpChild :
             /\ Zombie(rpChild[c])
             /\ rpChild' = [rpChild EXCEPT ![c] = "reaped"]
       \/ rpChild' = rpChild
    /\ rpI' = rpI + 1
    /\ rpPc' = "loop"
    /\ UNCHANGED <<rpInput, cwd, oldpwd, ent, rpArgs, rpLaunch, rpExec, rpExecSig,
                   rpNonzero, rpBudget, rpResult>>

\* chdir(oldpwd); free(oldpwd); return 0.  chdir(NULL) fails.
RpFinish ==
    /\ rpPc = "loop"
    /\ rpI = Len(ent)
    /\ cwd' = IF oldpwd = NoPwd THEN cwd ELSE oldpwd
    /\ rpResult' = 0
    /\ rpPc' = "done"
    /\ UNCHANGED <<rpInput, oldpwd, ent, rpArgs, rpI, rpChildVars>>

NextParts ==
    \/ RpChdirFail
    \/ RpChdir
    \/ RpOpendirFail
    \/ RpScan
    \/ RpFork
    \/ RpForkFail
    \/ \E c \in DOMAIN rpChild : RpChildExec(c)
    \/ \E c \in DOMAIN rpChild : RpChildExit(c)
    \/ \E c \in DOMAIN rpChild : RpChildKilled(c)
    \/ \E c \in DOMAIN rpChild : RpReapedElsewhere(c)
    \/ RpWaitpid
    \/ RpWaitEINTR
    \/ RpWaitECHILD
    \/ RpWaitAny
    \/ RpFinish

SpecParts == InitParts /\ [][NextParts]_vars

-----------------------------------------------------------------------------
(* run_getty(): the console process, lines 529-588 *)

\* sh (one token), sh -l, and a line whose closing quote is its last character.
GettyCmds == {
    <<"s","h">>,
    <<"s","h"," ","-","l">>,
    <<"a"," ","\"","b"," ","c","\"">> }

\* A pass of the loop that has checked and done nothing yet.
NewPass == [top |-> "none", prompt |-> "none", read |-> "none",
            recheck |-> "none", login |-> "none"]

\* What read(STDIN_FILENO, &c, 1) can give: a newline, another character,
\* end of file (0) or an error (-1).
ReadOutcomes == {"newline", "char", "eof", "error"}

\* read(...) == 1 && c != '\n': the inner loop reads again.
ReadAgain(r) == r = "char"

InitGetty ==
    /\ cmd \in GettyCmds
    /\ sigdisp \in SigPatterns
    /\ buf = <<>>
    /\ arg = NULL
    /\ i = 0
    /\ args = NoArgs
    /\ pc = "idle"
    /\ ub = "none"
    /\ fp = FALSE
    /\ child = "none"
    /\ childSig = AllDfl
    /\ childOut = "none"
    /\ childArgv = <<>>
    /\ execFailed = FALSE
    /\ status = 0
    /\ reapedBy = "none"
    /\ waitErr = "none"
    /\ result = 0
    /\ PartsIdle
    /\ KillIdle
    /\ PollIdle
    /\ InteractiveIdle
    /\ gPc = "call"
    /\ shutdown \in BOOLEAN
    /\ stopped \in BOOLEAN
    /\ gIt = NewPass
    /\ gExit = 0

gettyRest == <<partsVars, killVars, pollVars, riVars, cmd>>
runState == <<buf, arg, i, args, pc, ub, fp, child, childSig, childOut, childArgv,
              execFailed, status, reapedBy, waitErr, result>>

\* pid = fork() succeeds; the child is the console process.
GettyFork ==
    /\ gPc = "call"
    /\ gPc' = "child"
    /\ UNCHANGED <<gettyRest, runState, sigdisp, shutdown, stopped, gIt, gExit>>

\* fork() == -1: run_getty() returns -1 and there is no console process.
GettyForkFail ==
    /\ gPc = "call"
    /\ gPc' = "nofork"
    /\ UNCHANGED <<gettyRest, runState, sigdisp, shutdown, stopped, gIt, gExit>>

\* open(CONSOLE, O_RDWR) != 0: exit(1).
GettyOpenFail ==
    /\ gPc = "child"
    /\ gPc' = "exited"
    /\ gExit' = 1
    /\ UNCHANGED <<gettyRest, runState, sigdisp, shutdown, stopped, gIt>>

\* The console is open: every signal gets sa_handler = SIG_DFL.  sa.sa_flags
\* is never written, so the flags given to sigaction() are whatever the stack
\* held; of these SA_NOCLDWAIT on SIGCHLD changes what happens to children,
\* which are then reaped by the kernel as they end.
GettySetup ==
    /\ gPc = "child"
    /\ \E nocldwait \in BOOLEAN :
          sigdisp' = IF nocldwait
                     THEN [ResetSignals(sigdisp) EXCEPT ![SIGCHLD] = "nocldwait"]
                     ELSE ResetSignals(sigdisp)
    /\ gPc' = "top"
    /\ UNCHANGED <<gettyRest, runState, shutdown, stopped, gIt, gExit>>

\* while (!fexist(SYNC_SHUTDOWN)): a new pass, or exit(0).
GettyTop ==
    /\ gPc = "top"
    /\ IF shutdown
       THEN /\ gPc' = "exited"
            /\ gExit' = 0
            /\ gIt' = gIt
       ELSE /\ gPc' = "stopchk"
            /\ gExit' = gExit
            /\ gIt' = NewPass
    /\ UNCHANGED <<gettyRest, runState, sigdisp, shutdown, stopped>>

\* if (fexist(SYNC_STOPPED)) { sleep(1); continue; }
GettyStopChk ==
    /\ gPc = "stopchk"
    /\ gIt' = [gIt EXCEPT !.top = IF stopped THEN "present" ELSE "absent"]
    /\ gPc' = IF stopped THEN "sleep" ELSE "write"
    /\ UNCHANGED <<gettyRest, runState, sigdisp, shutdown, stopped, gExit>>

\* sleep(1) returns; continue.
GettySleep ==
    /\ gPc = "sleep"
    /\ gPc' = "top"
    /\ UNCHANGED <<gettyRest, runState, sigdisp, shutdown, stopped, gIt, gExit>>

\* i = write(STDERR_FILENO, msg, sizeof(msg) - 1); i is not looked at.
GettyPrompt ==
    /\ gPc = "write"
    /\ \E w \in {"written", "failed"} : gIt' = [gIt EXCEPT !.prompt = w]
    /\ gPc' = "read"
    /\ UNCHANGED <<gettyRest, runState, sigdisp, shutdown, stopped, gExit>>

\* while (read(STDIN_FILENO, &c, 1) == 1 && c != '\n') continue;
\* one read() that returns.
GettyRead ==
    /\ gPc = "read"
    /\ \E r \in ReadOutcomes :
          /\ gIt' = [gIt EXCEPT !.read = r]
          /\ gPc' = IF ReadAgain(r) THEN "read" ELSE "recheck"
    /\ UNCHANGED <<gettyRest, runState, sigdisp, shutdown, stopped, gExit>>

\* GettyRecheck without "if (fexist(SYNC_STOPPED)) continue;".
GettyRecheck_NoCheck ==
    /\ gPc = "recheck"
    /\ gIt' = [gIt EXCEPT !.recheck = IF stopped THEN "present" ELSE "absent",
                          !.login = IF shutdown THEN "present" ELSE "absent"]
    /\ gPc' = "run"
    /\ pc' = "call"
    /\ buf' = <<>>
    /\ arg' = NULL
    /\ i' = 0
    /\ args' = NoArgs
    /\ ub' = "none"
    /\ child' = "none"
    /\ childSig' = AllDfl
    /\ childOut' = "none"
    /\ childArgv' = <<>>
    /\ execFailed' = FALSE
    /\ status' = 0
    /\ reapedBy' = "none"
    /\ waitErr' = "none"
    /\ UNCHANGED <<gettyRest, sigdisp, shutdown, stopped, gExit, fp, result>>

\* if (fexist(SYNC_STOPPED)) continue; run(cmd): the call of run() starts
\* with fresh locals.  login records whether SYNC_SHUTDOWN existed then.
GettyRecheck ==
    /\ gPc = "recheck"
    /\ IF stopped
       THEN /\ gIt' = [gIt EXCEPT !.recheck = "present"]
            /\ gPc' = "top"
            /\ UNCHANGED runState
       ELSE /\ gIt' = [gIt EXCEPT !.recheck = "absent",
                                  !.login = IF shutdown THEN "present" ELSE "absent"]
            /\ gPc' = "run"
            /\ pc' = "call"
            /\ buf' = <<>>
            /\ arg' = NULL
            /\ i' = 0
            /\ args' = NoArgs
            /\ ub' = "none"
            /\ child' = "none"
            /\ childSig' = AllDfl
            /\ childOut' = "none"
            /\ childArgv' = <<>>
            /\ execFailed' = FALSE
            /\ status' = 0
            /\ reapedBy' = "none"
            /\ waitErr' = "none"
            /\ UNCHANGED <<fp, result>>
    /\ UNCHANGED <<gettyRest, sigdisp, shutdown, stopped, gExit>>

\* run(cmd) has returned; its value is not looked at.  Next pass.
GettyRunReturns ==
    /\ gPc = "run"
    /\ pc = "done"
    /\ pc' = "idle"
    /\ gPc' = "top"
    /\ UNCHANGED <<gettyRest, sigdisp, shutdown, stopped, gIt, gExit, buf, arg, i, args,
                   ub, fp, child, childSig, childOut, childArgv, execFailed, status,
                   reapedBy, waitErr, result>>

\* run(cmd) crashed in the tokenizer: it is the console process that dies.
GettyRunCrashes ==
    /\ gPc = "run"
    /\ pc = "crashed"
    /\ pc' = "idle"
    /\ gPc' = "killed"
    /\ UNCHANGED <<gettyRest, sigdisp, shutdown, stopped, gIt, gExit, buf, arg, i, args,
                   ub, fp, child, childSig, childOut, childArgv, execFailed, status,
                   reapedBy, waitErr, result>>

GettyRunning == gPc \in {"child", "top", "stopchk", "sleep", "write", "read", "recheck", "run"}

\* The supervisor creates or removes a marker file.
ShutdownCreate ==
    /\ GettyRunning
    /\ ~shutdown
    /\ shutdown' = TRUE
    /\ UNCHANGED <<gettyRest, runState, sigdisp, stopped, gPc, gIt, gExit>>

ShutdownRemove ==
    /\ GettyRunning
    /\ shutdown
    /\ shutdown' = FALSE
    /\ UNCHANGED <<gettyRest, runState, sigdisp, stopped, gPc, gIt, gExit>>

StoppedCreate ==
    /\ GettyRunning
    /\ ~stopped
    /\ stopped' = TRUE
    /\ UNCHANGED <<gettyRest, runState, sigdisp, shutdown, gPc, gIt, gExit>>

StoppedRemove ==
    /\ GettyRunning
    /\ stopped
    /\ stopped' = FALSE
    /\ UNCHANGED <<gettyRest, runState, sigdisp, shutdown, gPc, gIt, gExit>>

\* The steps the console process takes by itself once it is scheduled, the
\* steps of run() included.  With every disposition at default no handler
\* can interrupt waitpid().
GettySteps ==
    \/ GettySetup
    \/ GettyTop
    \/ GettyStopChk
    \/ GettySleep
    \/ GettyPrompt
    \/ GettyRecheck
    \/ GettyRunReturns
    \/ GettyRunCrashes
    \/ RunFirstToken
    \/ TokStep
    \/ TokNullDeref
    \/ TokOutOfRange
    \/ TokDone
    \/ Fork
    \/ ChildExec
    \/ ReapedElsewhere
    \/ WaitpidOk
    \/ WaitpidECHILD
    \/ RunReturn

NextGetty ==
    \/ GettyFork
    \/ GettyForkFail
    \/ GettyOpenFail
    \/ GettySetup
    \/ GettyTop
    \/ GettyStopChk
    \/ GettySleep
    \/ GettyPrompt
    \/ GettyRead
    \/ GettyRecheck
    \/ GettyRunReturns
    \/ GettyRunCrashes
    \/ ShutdownCreate
    \/ ShutdownRemove
    \/ StoppedCreate
    \/ StoppedRemove
    \/ RunStrdupFail
    \/ RunFirstToken
    \/ TokStep
    \/ TokNullDeref
    \/ TokOutOfRange
    \/ TokDone
    \/ Fork
    \/ ForkFail
    \/ ChildExec
    \/ ChildExit
    \/ ChildKilled
    \/ ReapedElsewhere
    \/ WaitpidOk
    \/ WaitpidECHILD
    \/ RunReturn

SpecGetty == InitGetty /\ [][NextGetty]_vars

\* The console process keeps running when it can: nothing is assumed of the
\* console input, of how long a login lasts, or of the supervisor.
SpecGettyFair == SpecGetty /\ WF_vars(GettySteps)

-----------------------------------------------------------------------------
(* procname_kill(), lines 299-343 *)

MaxProcs == 3       \* every process table of at most MaxProcs processes is tried

\* Process names and directory entry names are strings of byte values.
SSH == <<115, 115, 104>>
SSHD == <<115, 115, 104, 100>>
SS == <<115, 115>>
CRON == <<99, 114, 111, 110>>
SELF == <<115, 101, 108, 102>>
ProcNames == {SSH, SSHD, SS, <<>>}
Targets == {SSH, SSHD, NullStr}

\* The pids of the processes, as /proc lists them.
Pids == <<7, 12, 345, 1024>>
PidNames == <<(<<55>>), (<<49, 50>>), (<<51, 52, 53>>), (<<49, 48, 50, 52>>)>>

\* isdigit(c)
IsDigit(c) == c \in 48..57

\* atoi(): the value of the leading decimal digits.
RECURSIVE AtoiFrom(_, _, _)
AtoiFrom(str, k, acc) ==
    IF k > Len(str) \/ ~IsDigit(str[k]) THEN acc
    ELSE AtoiFrom(str, k + 1, acc * 10 + (str[k] - 48))

Atoi(str) == AtoiFrom(str, 1, 0)

\* The first line of /proc/<pid>/status: "Name:\t<name>\n".
StatusLine(name) == <<78, 97, 109, 101, 58, 9>> \o name \o <<10>>

\* fgets(line, size, fp) on a file holding text: up to size - 1 bytes, ending
\* after the first newline.
Fgets(text, size) ==
    LET nl == {k \in 1..Len(text) : text[k] = 10}
        end == IF nl = {} THEN Len(text) ELSE CHOOSE k \in nl : \A j \in nl : k <= j
    IN  SubSeq(text, 1, IF end < size - 1 THEN end ELSE size - 1)

\* char *pname = line + 6
Pname(line) == SubSeq(line, 7, Len(line))

\* The byte at place k of a C string: 0 from its end on.
ByteAt(str, k) == IF k <= Len(str) THEN str[k] ELSE 0

\* strncmp(a, b, n): the difference at the first place, of the first n, where
\* the strings differ; 0 if there is none before n places or the end.
Strncmp(a, b, n) ==
    LET last == IF Len(a) < Len(b) THEN Len(a) + 1 ELSE Len(b) + 1
        upto == IF n < last THEN n ELSE last
        diff == {k \in 1..upto : ByteAt(a, k) /= ByteAt(b, k)}
    IN  IF diff = {} THEN 0
        ELSE LET k == CHOOSE x \in diff : \A y \in diff : x <= y
             IN  ByteAt(a, k) - ByteAt(b, k)

\* strncmp(pname, name, strlen(pname) - 1) == 0; pname ends in the newline
\* fgets() kept.
PnameMatches(pname, name) == Strncmp(pname, name, Len(pname) - 1) = 0

\* A process table: processes 1..n with their names, all running, and the
\* listing readdir() gives of /proc, with the entry "self" in it.
Table(names) ==
    [procs |-> [k \in 1..Len(names) |->
                   [pid |-> Pids[k], name |-> names[k], state |-> "running",
                    signalled |-> FALSE]],
     listing |-> IF Len(names) = 0 THEN <<SELF>>
                 ELSE <<PidNames[1], SELF>> \o [k \in 1..(Len(names) - 1) |-> PidNames[k + 1]]]

SmallTables == UNION {{Table(ns) : ns \in [1..n -> ProcNames]} : n \in 0..MaxProcs}

\* Three processes sharing one name; three with different names.
ExampleTables == {Table(<<SSH, SSH, SSH>>), Table(<<SSHD, SS, CRON>>)}

ProcOf(procs, pid) ==
    IF \E k \in DOMAIN procs : procs[k].pid = pid
    THEN CHOOSE k \in DOMAIN procs : procs[k].pid = pid
    ELSE 0

InitKill ==
    /\ RunIdle
    /\ sigdisp = AllDfl
    /\ PartsIdle
    /\ GettyIdle
    /\ PollIdle
    /\ InteractiveIdle
    /\ pkName \in Targets
    /\ \E t \in SmallTables \cup ExampleTables :
          /\ pkProc = t.procs
          /\ pkDir = t.listing
    /\ pkPos = 0
    /\ pkLine = <<>>
    /\ pkPc = "call"
    /\ pkResult = 0

killRest == <<runVars, sigdisp, partsVars, gettyVars, pollVars, riVars, pkName, pkDir>>

\* dir = opendir("/proc") fails: errno = EINVAL; return 0.
PkOpendirFail ==
    /\ pkPc = "call"
    /\ pkPc' = "done"
    /\ UNCHANGED <<killRest, pkProc, pkPos, pkLine, pkResult>>

\* opendir() succeeds; if (!name) return 0.
PkOpendir ==
    /\ pkPc = "call"
    /\ pkPc' = IF pkName = NullStr THEN "done" ELSE "readdir"
    /\ UNCHANGED <<killRest, pkProc, pkPos, pkLine, pkResult>>

\* entry = readdir(dir): the next entry; one that does not begin with a digit
\* is skipped; fopen("/proc/<d_name>/status") fails for a process that has
\* gone and the entry is skipped.
PkReaddir ==
    /\ pkPc = "readdir"
    /\ pkPos < Len(pkDir)
    /\ pkPos' = pkPos + 1
    /\ LET d_name == pkDir[pkPos + 1]
           k == ProcOf(pkProc, Atoi(d_name))
       IN  pkPc' = IF /\ IsDigit(ByteAt(d_name, 1))
                      /\ k /= 0
                      /\ pkProc[k].state = "running"
                   THEN "fgets" ELSE "readdir"
    /\ UNCHANGED <<killRest, pkProc, pkLine, pkResult>>

\* readdir() == NULL: closedir(dir); return result.
PkReturn ==
    /\ pkPc = "readdir"
    /\ pkPos = Len(pkDir)
    /\ pkPc' = "done"
    /\ UNCHANGED <<killRest, pkProc, pkPos, pkLine, pkResult>>

\* fgets(line, sizeof(line), fp), NULL if the process has gone meanwhile, and
\* the comparison of the name; fclose(fp) if there is nothing to signal.
PkFgets ==
    /\ pkPc = "fgets"
    /\ LET k == ProcOf(pkProc, Atoi(pkDir[pkPos]))
       IN  IF pkProc[k].state = "running"
           THEN /\ pkLine' = Fgets(StatusLine(pkProc[k].name), 64)
                /\ pkPc' = IF PnameMatches(Pname(pkLine'), pkName) THEN "kill" ELSE "readdir"
           ELSE /\ pkLine' = pkLine
                /\ pkPc' = "readdir"
    /\ UNCHANGED <<killRest, pkProc, pkPos, pkResult>>

\* PkKill with result++ whatever kill() returns.
PkKill_CountAll ==
    /\ pkPc = "kill"
    /\ LET k == ProcOf(pkProc, Atoi(pkDir[pkPos]))
       IN  /\ pkResult' = pkResult + 1
           /\ pkProc' = IF pkProc[k].state = "running"
                        THEN [pkProc EXCEPT ![k].signalled = TRUE]
                        ELSE pkProc
    /\ pkPc' = "readdir"
    /\ UNCHANGED <<killRest, pkPos, pkLine>>

\* kill(atoi(entry->d_name), signo): 0 for a process that is there, and then
\* result++; -1 (ESRCH) for one that has gone.  fclose(fp).
PkKill ==
    /\ pkPc = "kill"
    /\ LET k == ProcOf(pkProc, Atoi(pkDir[pkPos]))
       IN  IF pkProc[k].state = "running"
           THEN /\ pkResult' = pkResult + 1
                /\ pkProc' = [pkProc EXCEPT ![k].signalled = TRUE]
           ELSE /\ pkResult' = pkResult
                /\ pkProc' = pkProc
    /\ pkPc' = "readdir"
    /\ UNCHANGED <<killRest, pkPos, pkLine>>

\* A process that has not been signalled ends by itself during the scan.
ProcExits(k) ==
    /\ pkPc \in {"readdir", "fgets", "kill"}
    /\ pkProc[k].state = "running"
    /\ ~pkProc[k].signalled
    /\ pkProc' = [pkProc EXCEPT ![k].state = "gone"]
    /\ UNCHANGED <<killRest, pkPos, pkLine, pkPc, pkResult>>

NextKill ==
    \/ PkOpendirFail
    \/ PkOpendir
    \/ PkReaddir
    \/ PkReturn
    \/ PkFgets
    \/ PkKill
    \/ \E k \in DOMAIN pkProc : ProcExits(k)

SpecKill == InitKill /\ [][NextKill]_vars

-----------------------------------------------------------------------------
(* pidfile_read() and pidfile_poll(), lines 151-211 *)

PollTries == 100
MaxText == 2        \* every pidfile text of at most MaxText bytes is tried

\* Texts a pidfile may hold, as strings of byte values: any short string of
\* 4, a and newline, and some longer ones.
TextBytes == {52, 97, 10}
ShortTexts == UNION {[1..n -> TextBytes] : n \in 0..MaxText}
ExampleTexts == {
    <<49, 50, 51, 52, 10>>,           \* "1234\n"
    <<32, 52, 50, 10>>,               \* " 42\n"
    <<48, 120, 49, 102, 10>>,         \* "0x1f\n"
    <<48, 49, 55, 10>>,               \* "017\n"
    <<57, 57, 10, 49>> }              \* "99\n1"
Texts == ShortTexts \cup ExampleTexts

\* isspace(c)
IsSpace(c) == c = 32 \/ c \in 9..13

\* The value of c as a digit, 99 if it is none.
DigitValue(c) ==
    IF c \in 48..57 THEN c - 48
    ELSE IF c \in 97..122 THEN c - 97 + 10
    ELSE IF c \in 65..90 THEN c - 65 + 10
    ELSE 99

RECURSIVE SkipSpace(_, _)
SkipSpace(str, k) ==
    IF k <= Len(str) /\ IsSpace(str[k]) THEN SkipSpace(str, k + 1) ELSE k

RECURSIVE DigitsFrom(_, _, _, _)
DigitsFrom(str, k, base, acc) ==
    IF k > Len(str) \/ DigitValue(str[k]) >= base THEN acc
    ELSE DigitsFrom(str, k + 1, base, acc * base + DigitValue(str[k]))

\* strtoul(buf, NULL, 0) converted to pid_t: blanks, an optional sign, the
\* base from the prefix (0x: 16, 0: 8, else 10), the digits; 0 if there are
\* none.  A text of at most 15 bytes cannot overflow unsigned long, so errno
\* stays 0; the magnitudes met here are below 2^31, so the conversion to
\* pid_t gives the value itself, negated after a minus sign.
Strtoul(str) ==
    LET s0 == SkipSpace(str, 1)
        neg == ByteAt(str, s0) = 45
        s1 == IF ByteAt(str, s0) \in {43, 45} THEN s0 + 1 ELSE s0
        hex == /\ ByteAt(str, s1) = 48
               /\ ByteAt(str, s1 + 1) \in {120, 88}
               /\ DigitValue(ByteAt(str, s1 + 2)) < 16
        base == IF hex THEN 16 ELSE IF ByteAt(str, s1) = 48 THEN 8 ELSE 10
        mag == DigitsFrom(str, IF hex THEN s1 + 2 ELSE s1, base, 0)
    IN  IF neg THEN 0 - mag ELSE mag

\* if (fgets(buf, sizeof(buf), fp)) pid = strtoul(buf, NULL, 0); else pid = 0.
PidOfText(text) ==
    LET line == Fgets(text, 16) IN IF line = <<>> THEN 0 ELSE Strtoul(line)

InitPoll ==
    /\ RunIdle
    /\ sigdisp = AllDfl
    /\ PartsIdle
    /\ GettyIdle
    /\ KillIdle
    /\ InteractiveIdle
    /\ pfFile \in {[exists |-> FALSE, text |-> <<>>]}
                    \cup {[exists |-> TRUE, text |-> t] : t \in ExampleTexts}
    /\ pfTries = 0
    /\ pfPc = "poll"
    /\ pfResult = 0

pollRest == <<runVars, sigdisp, partsVars, gettyVars, killVars, riVars>>

\* while (!fexist(path) && tries++ < 100): the test and, if the loop goes
\* on, what remains to do is usleep(50000).
PollTest ==
    /\ pfPc = "poll"
    /\ IF pfFile.exists
       THEN /\ pfTries' = pfTries
            /\ pfPc' = "after"
       ELSE /\ pfTries' = pfTries + 1
            /\ pfPc' = IF pfTries < PollTries THEN "sleep" ELSE "after"
    /\ UNCHANGED <<pollRest, pfFile, pfResult>>

\* usleep(50000) returns.
PollSleep ==
    /\ pfPc = "sleep"
    /\ pfPc' = "poll"
    /\ UNCHANGED <<pollRest, pfFile, pfTries, pfResult>>

\* if (!fexist(path)) pid = 0 and return; else pid = pidfile_read(path).
PollAfter ==
    /\ pfPc = "after"
    /\ IF pfFile.exists
       THEN /\ pfPc' = "read"
            /\ pfResult' = pfResult
       ELSE /\ pfPc' = "done"
            /\ pfResult' = 0
    /\ UNCHANGED <<pollRest, pfFile, pfTries>>

\* pidfile_read(): if (!fexist(pidfile)) return -1.
ReadTest ==
    /\ pfPc = "read"
    /\ IF pfFile.exists
       THEN /\ pfPc' = "fopen"
            /\ pfResult' = pfResult
       ELSE /\ pfPc' = "done"
            /\ pfResult' = -1
    /\ UNCHANGED <<pollRest, pfFile, pfTries>>

\* pidfile_read(): fp = fopen(pidfile, "r"), -1 if it fails; fgets(),
\* strtoul(), fclose(); pidfile_poll() returns the value.
ReadFile ==
    /\ pfPc = "fopen"
    /\ pfResult' = IF pfFile.exists THEN PidOfText(pfFile.text) ELSE -1
    /\ pfPc' = "done"
    /\ UNCHANGED <<pollRest, pfFile, pfTries>>

PollRunning == pfPc \in {"poll", "sleep", "after", "read", "fopen"}

\* Another process writes the pidfile, creating it if need be.
PidfileWritten ==
    /\ PollRunning
    /\ \E t \in Texts : pfFile' = [exists |-> TRUE, text |-> t]
    /\ UNCHANGED <<pollRest, pfTries, pfPc, pfResult>>

\* Another process removes the pidfile.
PidfileRemoved ==
    /\ PollRunning
    /\ pfFile.exists
    /\ pfFile' = [exists |-> FALSE, text |-> <<>>]
    /\ UNCHANGED <<pollRest, pfTries, pfPc, pfResult>>

NextPoll ==
    \/ PollTest
    \/ PollSleep
    \/ PollAfter
    \/ ReadTest
    \/ ReadFile
    \/ PidfileWritten
    \/ PidfileRemoved

SpecPoll == InitPoll /\ [][NextPoll]_vars

-----------------------------------------------------------------------------
(* run_interactive(), lines 491-527 *)

\* ls (one token), echo hello, and a line whose closing quote is its last
\* character.
RiCmds == {
    <<"l","s">>,
    <<"e","c","h","o"," ","h","e","l","l","o">>,
    <<"a"," ","\"","b"," ","c","\"">> }

\* How much a command prints, against the size of char line[LINE_SIZE]:
\* one byte, up to LINE_SIZE bytes, or more.
OutputSizes == {"one", "short", "long"}

\* if (fp && !debug)
Capture == riFp /\ ~debug

\* print_result(status): the FAIL marker if status is not zero, else OK.
ResultMarker(st) == IF st /= 0 THEN "FAIL" ELSE "OK"

\* rewind(fp); do { len = fread(line, 1, sizeof(line), fp);
\*                  written = fwrite(line, len, sizeof(char), stderr); }
\* while (len > 0 && written == len);
\* fwrite() returns the number of items written, 1 for one item of len
\* bytes, so the loop reads on only after a block of exactly one byte: of a
\* file longer than LINE_SIZE the first LINE_SIZE bytes are replayed.
RECURSIVE Replay(_)
Replay(file) ==
    IF file = <<>> THEN <<>>
    ELSE IF Head(file) = "one" THEN <<"one">> \o Replay(Tail(file))
    ELSE IF Head(file) = "short" THEN <<"short">>
    ELSE <<"cut">>

InitInteractive ==
    /\ cmd \in RiCmds
    /\ sigdisp \in SigPatterns
    /\ buf = <<>>
    /\ arg = NULL
    /\ i = 0
    /\ args = NoArgs
    /\ pc = "idle"
    /\ ub = "none"
    /\ fp = FALSE
    /\ child = "none"
    /\ childSig = AllDfl
    /\ childOut = "none"
    /\ childArgv = <<>>
    /\ execFailed = FALSE
    /\ status = 0
    /\ reapedBy = "none"
    /\ waitErr = "none"
    /\ result = 0
    /\ PartsIdle
    /\ GettyIdle
    /\ KillIdle
    /\ PollIdle
    /\ debug \in BOOLEAN
    /\ riFp = FALSE
    /\ riOut = "tty"
    /\ riPc = "call"
    /\ scratch = <<>>
    /\ errStream = <<>>
    /\ childWrote = FALSE

riRest == <<partsVars, gettyVars, killVars, pollVars, cmd, sigdisp>>

\* fp = tmpfile(), which may fail; print_descr("", line); with capture,
\* stdout and stderr are made to refer to the scratch file; run(cmd) is
\* called.
RiBegin ==
    /\ riPc = "call"
    /\ riFp' \in BOOLEAN
    /\ errStream' = Append(errStream, "descr")
    /\ riOut' = IF riFp' /\ ~debug THEN "scratch" ELSE riOut
    /\ riPc' = "run"
    /\ pc' = "call"
    /\ UNCHANGED <<riRest, debug, scratch, childWrote, buf, arg, i, args, ub, fp, child,
                   childSig, childOut, childArgv, execFailed, status, reapedBy, waitErr,
                   result>>

\* The executed command prints: to the null sink if its stdio was redirected
\* there, else to what it inherited at the fork, the scratch file under
\* capture and the terminal without.
ChildWrites ==
    /\ child = "execed"
    /\ ~childWrote
    /\ childWrote' = TRUE
    /\ \E size \in OutputSizes :
          IF childOut = "devnull"
          THEN UNCHANGED <<scratch, errStream>>
          ELSE IF Capture
          THEN scratch' = Append(scratch, size) /\ errStream' = errStream
          ELSE errStream' = Append(errStream, size) /\ scratch' = scratch
    /\ UNCHANGED <<riRest, runState, debug, riFp, riOut, riPc>>

\* run(cmd) has returned: stdout and stderr are restored, print_result(),
\* the scratch file is replayed to stderr and closed; return status.
RiEnd ==
    /\ riPc = "run"
    /\ pc = "done"
    /\ riOut' = "tty"
    /\ errStream' = errStream \o <<ResultMarker(result)>>
                              \o (IF Capture THEN Replay(scratch) ELSE <<>>)
    /\ riPc' = "done"
    /\ UNCHANGED <<riRest, runState, debug, riFp, scratch, childWrote>>

\* run(cmd) crashed in the tokenizer: the caller dies with it.
RiCrash ==
    /\ riPc = "run"
    /\ pc = "crashed"
    /\ riPc' = "killed"
    /\ UNCHANGED <<riRest, runState, debug, riFp, riOut, scratch, errStream, childWrote>>

NextInteractive ==
    \/ RiBegin
    \/ ChildWrites
    \/ RiEnd
    \/ RiCrash
    \/ RunStrdupFail
    \/ RunFirstToken
    \/ TokStep
    \/ TokNullDeref
    \/ TokOutOfRange
    \/ TokDone
    \/ Fork
    \/ ForkFail
    \/ ChildExec
    \/ ChildExit
    \/ ChildKilled
    \/ ReapedElsewhere
    \/ WaitpidOk
    \/ WaitpidEINTR
    \/ WaitpidECHILD
    \/ RunReturn

SpecInteractive == InitInteractive /\ [][NextInteractive]_vars

-----------------------------------------------------------------------------
(* Properties of run() *)

\* What the child made of status, read off the status word.
ExitedWith(code) == status = ExitStatus(code)
KilledBy(sig) == status = SignalStatus(sig, FALSE) \/ status = SignalStatus(sig, TRUE)

\* C1: run() returns 0 only if its child exited normally with code 0; a
\* normal exit yields the exit code and a termination by signal, whatever
\* the signal number, yields a nonzero result.
C1_ZeroOnlyOnCleanExit ==
    /\ (pc = "done" /\ result = 0) => (reapedBy = "run" /\ ExitedWith(0))
    /\ \A code \in 0..255 :
          (pc = "done" /\ reapedBy = "run" /\ ExitedWith(code)) => result = code
    /\ \A sig \in 1..(NSIG - 1) :
          (pc = "done" /\ reapedBy = "run" /\ KilledBy(sig)) => result /= 0

\* A child killed by an even-numbered signal has been reaped and reported.
C1_Witness ==
    /\ pc = "done"
    /\ reapedBy = "run"
    /\ \E sig \in 1..(NSIG - 1) : sig % 2 = 0 /\ KilledBy(sig)
    /\ result = 1

\* A line of unquoted tokens separated by single blanks.
IsPlainLine(c) ==
    /\ Len(c) >= 1
    /\ \A k \in 1..Len(c) : c[k] \notin Quotes
    /\ c[1] \notin Blanks
    /\ c[Len(c)] \notin Blanks
    /\ \A k \in 1..(Len(c) - 1) : ~(c[k] \in Blanks /\ c[k + 1] \in Blanks)

BlankPos(c) == {k \in 1..Len(c) : c[k] \in Blanks}
NumTokens(c) == 1 + Cardinality(BlankPos(c))

\* The tokens of a plain line, in order.
PlainTokens(c) ==
    LET starts == {1} \cup {k + 1 : k \in BlankPos(c)}
        startOf(t) == CHOOSE x \in starts : Cardinality({y \in starts : y < x}) = t - 1
        endOf(t) == IF t = NumTokens(c) THEN Len(c) ELSE startOf(t + 1) - 2
    IN  [t \in 1..NumTokens(c) |-> SubSeq(c, startOf(t), endOf(t))]

\* C2: for every line of n unquoted tokens, 1 <= n <= 16, separated by single
\* blanks, run() completes the tokenization, execs exactly those tokens and
\* returns the child's exit code.
C2_PlainLineRuns ==
    (IsPlainLine(cmd) /\ NumTokens(cmd) <= NUM_ARGS) =>
        /\ pc /= "crashed"
        /\ ub = "none"
        /\ childArgv /= <<>> => childArgv = PlainTokens(cmd)
        /\ \A code \in 0..255 :
              (pc = "done" /\ reapedBy = "run" /\ ExitedWith(code)) => result = code

\* C2 without the single-token lines: with 2 <= n <= 16 the claim holds.
C2_FromTwoTokens ==
    (IsPlainLine(cmd) /\ NumTokens(cmd) \in 2..NUM_ARGS) =>
        /\ pc /= "crashed"
        /\ ub = "none"
        /\ childArgv /= <<>> => childArgv = PlainTokens(cmd)

\* First position at or after p holding a character of set, or 0.
FirstAt(c, p, set) ==
    IF \E j \in p..Len(c) : c[j] \in set
    THEN CHOOSE j \in p..Len(c) : c[j] \in set /\ \A k \in p..(j - 1) : c[k] \notin set
    ELSE 0

\* The tokens of the text from p on, p being where a token starts: a token
\* beginning with a quote runs to the matching quote and takes the character
\* after it as its separator; any other token runs to the next blank.  keep
\* says whether the quotes are part of the token.  ok is FALSE if a quoted
\* token has no matching quote or nothing after it.
RECURSIVE TokensFrom(_, _, _)
TokensFrom(c, p, keep) ==
    IF p > Len(c) THEN [ok |-> TRUE, toks |-> << <<>> >>]
    ELSE IF c[p] \in Quotes
    THEN LET q == FirstAt(c, p + 1, {c[p]})
         IN  IF q = 0 \/ q = Len(c) THEN [ok |-> FALSE, toks |-> <<>>]
             ELSE LET rest == TokensFrom(c, q + 2, keep)
                      tok == IF keep THEN SubSeq(c, p, q) ELSE SubSeq(c, p + 1, q - 1)
                  IN  [ok |-> rest.ok, toks |-> <<tok>> \o rest.toks]
    ELSE LET j == FirstAt(c, p, Blanks)
         IN  IF j = 0 THEN [ok |-> TRUE, toks |-> <<SubSeq(c, p, Len(c))>>]
             ELSE LET rest == TokensFrom(c, j + 1, keep)
                  IN  [ok |-> rest.ok, toks |-> <<SubSeq(c, p, j - 1)>> \o rest.toks]

\* The command name is split off at the first blank, quotes or not.
LineTokens(c, keep) ==
    LET j == FirstAt(c, 1, Blanks)
    IN  IF j = 0 THEN [ok |-> FALSE, toks |-> <<c>>]
        ELSE LET rest == TokensFrom(c, j + 1, keep)
             IN  [ok |-> rest.ok, toks |-> <<SubSeq(c, 1, j - 1)>> \o rest.toks]

FirstArgs(toks) == SubSeq(toks, 1, IF Len(toks) < NUM_ARGS THEN Len(toks) ELSE NUM_ARGS)

\* The line has, among its first NUM_ARGS tokens, one that begins with a
\* quote, and every quoted token has its matching quote and a character
\* after it.
HasQuotedToken(c) ==
    /\ LineTokens(c, TRUE).ok
    /\ FirstArgs(LineTokens(c, TRUE).toks) /= FirstArgs(LineTokens(c, FALSE).toks)

\* C3 as stated: a token beginning with a quote becomes one argv element,
\* the text between the quotes with both quotes removed.
C3_QuotesStripped ==
    (HasQuotedToken(cmd) /\ childArgv /= <<>>) =>
        childArgv = FirstArgs(LineTokens(cmd, FALSE).toks)

\* C3 amended: a token after the command name that begins with a quote
\* becomes one argv element, the text from the opening quote through the
\* matching quote, both quotes kept.
C3_QuotesKept ==
    (HasQuotedToken(cmd) /\ childArgv /= <<>>) =>
        /\ ub = "none"
        /\ childArgv = FirstArgs(LineTokens(cmd, TRUE).toks)

\* The su line has been tokenized and passed to execvp().
C3_Witness ==
    /\ cmd = SuCmd
    /\ HasQuotedToken(cmd)
    /\ Len(childArgv) = 4
    /\ childArgv[3] = SubSeq(SuCmd, 7, 28)
    /\ childArgv[4] = SubSeq(SuCmd, 30, 39)

\* C4: a line of more than NUM_ARGS tokens makes run() report an error and
\* fork no child.
C4_TooManyArguments ==
    (IsPlainLine(cmd) /\ NumTokens(cmd) > NUM_ARGS) =>
        /\ child = "none"
        /\ childArgv = <<>>
        /\ pc = "done" => result /= 0

AllDefault(disp) == \A s \in Signals : disp[s] = "dfl"

\* C5: every child, of run() or of run_parts(), has every disposition
\* 1..NSIG-1 at default when it calls exec.
C5_DefaultsBeforeExec ==
    /\ childArgv /= <<>> => AllDefault(childSig)
    /\ rpExecSig /= <<>> => AllDefault(rpExecSig)

\* C5 for run() alone, which does reset them.
C5_RunChildDefaults == childArgv /= <<>> => AllDefault(childSig)

Unreaped(st) == st \in {"forked", "execed", "zombie"}

\* C6 as stated: run() never returns while its child is unreaped.
C6_NeverReturnsUnreaped == pc = "done" => ~Unreaped(child)

\* C6 amended: run() returns with its child unreaped only when waitpid() was
\* interrupted (EINTR), and then it returns 1; on every other return path
\* after a successful fork the child has been reaped.
C6_UnreapedOnlyOnEINTR ==
    /\ (pc = "done" /\ Unreaped(child)) => (waitErr = "EINTR" /\ result = 1)
    /\ (pc = "done" /\ child /= "none" /\ waitErr /= "EINTR") => child = "reaped"

\* run() has returned after an interrupted wait, its child still running.
C6_Witness == pc = "done" /\ waitErr = "EINTR" /\ child = "execed" /\ result = 1

\* C7 as stated: the value returned for an exec failure is never returned
\* for a command that was executed.
C7_ExecFailureReserved ==
    (pc = "done" /\ reapedBy = "run" /\ childArgv /= <<>> /\ ~execFailed) =>
        result /= ExecFailCode

\* C7 amended: for an exec failure run() returns the nonzero value 1, never
\* the success value 0; the same value is returned for a command that exits
\* with code 1, for a child killed by a signal and for a failed wait.
C7_ExecFailureNonzero ==
    (pc = "done" /\ execFailed) => (result = ExecFailCode /\ result /= 0)

\* run() has reaped a child whose execvp() failed.
C7_Witness == pc = "done" /\ execFailed /\ reapedBy = "run" /\ result = 1

-----------------------------------------------------------------------------
(* Properties of run_parts() *)

\* C8: when run_parts() has returned, on every exit path, the working
\* directory is the one in effect at the call.
C8_CwdRestored == rpPc = "done" => cwd = "orig"

\* An owner-executable regular file.
IsScript(e) == e.d_type = "DT_REG" /\ e.statok /\ e.xusr
ScriptNames(d) == {d[k].name : k \in {j \in 1..Len(d) : IsScript(d[j])}}

\* a sorts strictly before b, byte by byte, a proper prefix first.
LexLess(a, b) ==
    \E p \in 1..Len(b) :
        /\ \A q \in 1..(p - 1) : q <= Len(a) /\ a[q] = b[q]
        /\ Len(a) >= p - 1
        /\ Len(a) >= p => a[p] < b[p]

Launched == [k \in 1..Len(rpLaunch) |-> rpLaunch[k].name]

C10_OneChildAtATime ==
    Cardinality({c \in DOMAIN rpChild : Unreaped(rpChild[c]) \/ Zombie(rpChild[c])}) <= 1

\* C11: every script executed by run_parts() receives an argv made of the
\* script name followed by the caller's extra arguments, in the caller's
\* order.
C11_ArgvWithExtras ==
    rpExec /= <<>> => rpExec[1].argv = <<rpExec[1].path>> \o extra

\* What execv() is given instead: the script name alone, args[1] = NULL
\* having cut the vector after it.
C11_ArgvNameOnly ==
    rpExec /= <<>> => rpExec[1].argv = <<rpExec[1].path>>

-----------------------------------------------------------------------------
(* Memory safety of the tokenizer *)

\* The line has a token, after the command name, that begins with a quote.
QuotedLine(c) == \E k \in 2..Len(c) : c[k] \in Quotes /\ c[k - 1] \in Blanks

\* C16: for every command line with a quoted token, the one with no matching
\* closing quote and the one whose closing quote ends the line included, the
\* tokenizer reads and writes only inside its copy of the line and never
\* dereferences a null or out-of-range pointer.
C16_QuotedTokenInBounds ==
    QuotedLine(cmd) => (ub = "none" /\ pc /= "crashed")

\* Where it does stay inside: every quoted token has its matching quote and
\* at least one character after it.
C16_InBoundsWhenFollowed ==
    (QuotedLine(cmd) /\ LineTokens(cmd, TRUE).ok) => (ub = "none" /\ pc /= "crashed")

-----------------------------------------------------------------------------
(* Properties of run_getty() *)

InLoop == gPc \in {"top", "stopchk", "sleep", "write", "read", "recheck", "run"}
LoginStarted == gIt.login /= "none"

\* C12: if the shutdown marker becomes present and stays present, the
\* console process eventually leaves its loop and exits with status 0.
C12_ShutdownLeadsToExit ==
    (shutdown /\ InLoop) ~> (~shutdown \/ (gPc = "exited" /\ gExit = 0))

\* The same with a console process that died in run()'s tokenizer left
\* aside: what remains is the process blocked in read() or in waitpid().
C12_ExitUnlessCrashed ==
    (shutdown /\ InLoop) ~> (~shutdown \/ gPc \in {"exited", "killed"})

\* C17: a pass that finds the stopped marker present at its top writes no
\* prompt and starts no login command, and the login command is started only
\* if the check made after the read, right before the start, found the
\* marker absent.
C17_StoppedMeansIdle ==
    /\ gIt.top = "present" =>
          /\ gIt.prompt = "none"
          /\ gIt.read = "none"
          /\ ~LoginStarted
          /\ gPc \in {"sleep", "top", "exited"}
    /\ LoginStarted => (gIt.top = "absent" /\ gIt.recheck = "absent")
    /\ gPc = "run" => LoginStarted

\* After an earlier login the console process idles on the stopped marker.
C17_Witness ==
    /\ gPc = "sleep"
    /\ gIt.top = "present"
    /\ gIt.prompt = "none"
    /\ child = "reaped"
    /\ childArgv /= <<>>

\* C18: the login command is started only after the prompt was written and
\* a newline was read; a read that ends without a newline (end of file or
\* error) never leads to the login command in that pass.
C18_LoginOnlyAfterEnter ==
    LoginStarted => (gIt.prompt /= "none" /\ gIt.read = "newline")

\* What does hold: the login command follows the write() of the prompt and a
\* read() that ended the inner loop, with a newline or without one.
C18_LoginAfterReadEnds ==
    LoginStarted => (gIt.prompt /= "none" /\ gIt.read \in {"newline", "eof", "error"})

\* C20: every start of the login command happens in a state where the
\* shutdown marker is absent.
C20_NoLoginDuringShutdown == gIt.login /= "present"

-----------------------------------------------------------------------------
(* Properties of procname_kill() *)

\* a is a prefix of b (a = b included).
IsPrefix(a, b) == Len(a) <= Len(b) /\ SubSeq(b, 1, Len(a)) = a

Scanned == pkPc = "done" /\ pkName /= NullStr /\ pkPos = Len(pkDir)
Signalled == {k \in DOMAIN pkProc : pkProc[k].signalled}
StillRunning == {k \in DOMAIN pkProc : pkProc[k].state = "running"}

\* C13: the signal goes to every live process whose name has the target as a
\* prefix, and to no other: target ssh matches a process named sshd, and a
\* process whose name is shorter than the target does not match.
C13_TargetIsPrefix ==
    /\ \A k \in Signalled : IsPrefix(pkName, pkProc[k].name)
    /\ Scanned => \A k \in StillRunning :
                      IsPrefix(pkName, pkProc[k].name) => pkProc[k].signalled

\* What the comparison does: the length is that of the process's own name,
\* so the signal goes to the processes whose name is a prefix of the target.
C13_CandidateIsPrefix ==
    /\ \A k \in Signalled : IsPrefix(pkProc[k].name, pkName)
    /\ Scanned => \A k \in StillRunning :
                      IsPrefix(pkProc[k].name, pkName) => pkProc[k].signalled

\* C14: every numeric entry is visited and the value returned is exactly the
\* number of matching processes for which kill() succeeded; a matching
\* process that ends between enumeration and signalling is not counted and
\* does not stop the scan.
C14_CountsDeliveries ==
    /\ pkResult = Cardinality(Signalled)
    /\ pkPc = "done" => (pkPos = Len(pkDir) \/ pkPos = 0)
    /\ Scanned =>
          \A k \in StillRunning :
              PnameMatches(Pname(StatusLine(pkProc[k].name)), pkName) => pkProc[k].signalled
    /\ \A k \in Signalled : PnameMatches(Pname(StatusLine(pkProc[k].name)), pkName)

\* Three processes named ssh: the second ended after it was listed, the
\* other two were signalled and counted.
C14_Witness ==
    /\ Scanned
    /\ pkName = SSH
    /\ Len(pkProc) = 3
    /\ \A k \in 1..3 : pkProc[k].name = SSH
    /\ pkProc[2].state = "gone"
    /\ Signalled = {1, 3}
    /\ pkResult = 2

\* Three processes sharing the target's name, none ending: all are signalled
\* and 3 is returned.
C14_ThreeOfThree ==
    (Scanned /\ Len(pkProc) = 3 /\ StillRunning = {1, 2, 3}
        /\ \A k \in 1..3 : pkProc[k].name = pkName) =>
        (pkResult = 3 /\ Signalled = {1, 2, 3})

-----------------------------------------------------------------------------
(* Properties of pidfile_poll() *)

\* C15: pidfile_poll() returns zero or the pid read from the file, never a
\* negative value, however another process creates or removes the pidfile
\* while it runs.
C15_NeverNegative == pfPc = "done" => pfResult >= 0

\* What it returns: zero, -1 when the file was gone by the time
\* pidfile_read() looked, or the value of some text the file held.
C15_ZeroMinusOneOrPid ==
    pfPc = "done" => pfResult \in {0, -1} \cup {PidOfText(t) : t \in Texts}

-----------------------------------------------------------------------------
(* Properties of run_interactive() *)

\* The child has set up its stdio and called execvp().
ChildAtExec == childArgv /= <<>>

\* C19: with capture active the child's stdout and stderr at exec time
\* refer to the scratch file, not to the null sink, so that what the command
\* printed is replayed after the OK/FAIL marker; the null sink is used only
\* when capture was not requested.
C19_CaptureReachesChild ==
    /\ (Capture /\ ChildAtExec) => childOut /= "devnull"
    /\ (riPc = "done" /\ Capture /\ childWrote /\ reapedBy = "run") =>
          /\ scratch /= <<>>
          /\ errStream = <<"descr", ResultMarker(result)>> \o Replay(scratch)

\* What decides the redirection: whether fopen("/dev/null") succeeded,
\* capture or not.
C19_NullSinkIfOpened ==
    ChildAtExec => ((childOut = "devnull") <=> fp)

====
